---- MODULE Spec2Model ----
(***************************************************************************)
(* A model of the transport primitives of iroh-gossip                      *)
(* (src/iroh-gossip/src/net/util.rs): the Dialer (a deduplicated,          *)
(* cancellable set of outbound connection attempts) and Timers (a          *)
(* multiplexer of deadlines), with its length-prefixed framing; of the     *)
(* varint framing of src/src/protocol.rs; and of the decoder of NAT-PMP    *)
(* responses (iroh-net, hp/portmapper/nat_pmp/protocol/response.rs).       *)
(*                                                                         *)
(* An async fn is modelled by the steps between its suspension points:     *)
(* Dialer::next is next_call (the first poll, which matches on             *)
(* pending_peers.is_empty()), next_poll (the await of pending.next()       *)
(* completing) and next_drop (the caller dropping the future, as a         *)
(* select! does when another branch wins).  While the future of an         *)
(* async fn on &mut self is alive the object is mutably borrowed, so the   *)
(* synchronous methods are enabled only when no call is in progress.       *)
(***************************************************************************)
EXTENDS Integers, Sequences, FiniteSets, TLC

\* ------------------------------------------------------------------ bounds
NumPeers == 2
MaxInFlight == 2

MaxTime == 3
MaxInserts == 3

MaxFields == 3
MaxWrites == 2
MaxRaw == 7
MaxReads == 3

MaxProtocolBytes == 5

MaxRespLen == 17

Peers == 1..NumPeers
AttemptIds == 1..MaxInFlight
Instants == 0..MaxTime

VARIABLES
    pending,        \* Dialer.pending: the in-flight attempts, id -> [peer, conn]
    pending_peers,  \* Dialer.pending_peers: peer -> cancellation token (= attempt id)
    cancelled,      \* the CancellationTokens of attempts in flight that have been cancelled
    next_pc,        \* position of the caller in Dialer::next
    op,             \* the Dialer operation that completed in the last step, if one did
    timers_next,    \* Timers.next: <<>> for None, <<instant>> for Some((instant, sleep))
    timers_map,     \* Timers.map: instant -> the items inserted at it, in insertion order
    now,            \* the clock
    inserted,       \* number of items inserted so far (items are numbered)
    wd_pc,          \* position of the caller in Timers::wait_and_drain
    top,            \* the Timers operation that completed in the last step, if one did
    scratch,        \* the writer's scratch buffer (BytesMut)
    w_pc,           \* position of the caller in write_message
    w_msg,          \* the message of the write_message call under way
    w_wrote,        \* the bytes the write_message call under way has written
    w_calls,        \* number of write_message calls that passed the size check
    torn,           \* a write_message was dropped with a part of its frame written
    wire,           \* the bytes written to the stream and not yet read
    closed,         \* the writing end of the stream has been closed
    sent,           \* the messages whose write_message returned Ok, in order
    raw_count,      \* number of bytes a peer wrote without write_message
    wtop,           \* the write_message call that returned in the last step, if one did
    r_pc,           \* position of the caller in read_lp
    r_taken,        \* the bytes the read_lp call under way has taken from the stream
    r_buf0,         \* the read buffer as it was when the read_lp call under way began
    rbuf,           \* the reader's buffer (BytesMut)
    reads,          \* number of read_lp calls that returned
    rtop,           \* the read_lp call that returned in the last step, if one did
    p_wire,         \* protocol.rs: the bytes written to the stream and not yet read
    p_closed,       \* protocol.rs: the writing end of the stream has been closed
    p_written,      \* protocol.rs: number of bytes written to the stream
    p_wtop,         \* the write_lp call that returned in the last step, if one did
    p_wpc,          \* position of the caller in write_lp
    p_wdata,        \* the data of the write_lp call under way
    p_wrote,        \* the bytes the write_lp call under way has written
    p_buffer,       \* protocol.rs: the reader's buffer (BytesMut)
    p_pc,           \* position of the caller in read_lp / read_lp_data of protocol.rs
    p_fn,           \* which of read_lp and read_lp_data is under way
    p_size,         \* the size read_prefix returned to the call under way
    p_zero_reads,   \* parity of the reads of the payload loop that returned 0
    p_top,          \* the read_lp / read_lp_data call that returned in the last step
    n_buf,          \* the buffer handed to Response::decode
    n_res           \* what Response::decode returned, once it has run

dialer_vars == <<pending, pending_peers, cancelled, next_pc, op>>
timers_vars == <<timers_next, timers_map, now, inserted, wd_pc, top>>
framing_vars == <<scratch, w_pc, w_msg, w_wrote, w_calls, torn, wire, closed, sent, raw_count, wtop,
                  r_pc, r_taken, r_buf0, rbuf, reads, rtop>>
protocol_vars == <<p_wire, p_closed, p_written, p_wtop, p_wpc, p_wdata, p_wrote,
                   p_buffer, p_pc, p_fn,
                   p_size, p_zero_reads, p_top>>
natpmp_vars == <<n_buf, n_res>>
vars == <<pending, pending_peers, cancelled, next_pc, op,
          timers_next, timers_map, now, inserted, wd_pc, top,
          scratch, w_pc, w_msg, w_wrote, w_calls, torn, wire, closed, sent,
          raw_count, wtop,
          r_pc, r_taken, r_buf0, rbuf, reads, rtop,
          p_wire, p_closed, p_written, p_wtop, p_wpc, p_wdata, p_wrote,
          p_buffer, p_pc, p_fn, p_size,
          p_zero_reads, p_top, n_buf, n_res>>

\* ------------------------------------------------------------------ Dialer

\* Peers and attempts are numbered from 1; 0 stands for none.
NoOp == [name |-> "none", peer |-> 0, id |-> 0, res |-> "none", conn |-> "none",
         aborted |-> FALSE]

\* Dialer::new
dialer_new ==
    /\ pending = <<>>
    /\ pending_peers = <<>>
    /\ cancelled = {}
    /\ next_pc = "idle"
    /\ op = NoOp

\* Dialer::is_pending
is_pending(peer) == peer \in DOMAIN pending_peers

\* HashMap::remove on pending_peers
remove_peer(m, peer) == [q \in (DOMAIN m) \ {peer} |-> m[q]]

\* a stream of futures that keeps the future that completed
remove_attempt_keeps(f, i) == f

\* FuturesUnordered: removing the future that completed
remove_attempt(f, i) == [j \in (DOMAIN f) \ {i} |-> f[j]]

\* an attempt future that completes whether or not the connection has settled
poll_attempt_never_pending(i) ==
    IF i \in cancelled THEN "Cancelled" ELSE pending[i].conn

\* poll_attempt without the cancellation branch of the select!
poll_attempt_ignores_cancel(i) ==
    IF pending[i].conn = "connecting" THEN "Pending" ELSE pending[i].conn

\* poll_attempt with the branches of the select! in the other order
poll_attempt_connect_first(i) ==
    IF pending[i].conn # "connecting" THEN pending[i].conn
    ELSE IF i \in cancelled THEN "Cancelled"
    ELSE "Pending"

\* The attempt future of queue_dial, polled: select! { biased; cancelled, connect }.
\* "Pending" when neither branch is ready.
poll_attempt(i) ==
    IF i \in cancelled THEN "Cancelled"
    ELSE IF pending[i].conn = "connecting" THEN "Pending"
    ELSE pending[i].conn

\* The name of the attempt (and of its token) that queue_dial creates: attempts
\* are told apart by a number, and a number is free again once next has
\* returned its attempt (no token of it is left then).
fresh_attempt == CHOOSE i \in AttemptIds : i \notin DOMAIN pending /\
                     \A j \in AttemptIds : j \notin DOMAIN pending => i <= j

\* Dialer::queue_dial
queue_dial(peer) ==
    /\ next_pc = "idle"
    /\ op' = [NoOp EXCEPT !.name = "queue_dial", !.peer = peer,
                          !.res = IF is_pending(peer) THEN "noop" ELSE "started"]
    /\ IF is_pending(peer)
       THEN UNCHANGED <<pending, pending_peers, cancelled>>
       ELSE /\ Cardinality(DOMAIN pending) < MaxInFlight
            /\ pending_peers' = [q \in DOMAIN pending_peers \cup {peer} |->
                                   IF q = peer THEN fresh_attempt ELSE pending_peers[q]]
            /\ pending' = [j \in DOMAIN pending \cup {fresh_attempt} |->
                             IF j = fresh_attempt
                             THEN [peer |-> peer, conn |-> "connecting"]
                             ELSE pending[j]]
            /\ UNCHANGED cancelled
    /\ UNCHANGED next_pc

\* abort_dial cancelling the token and leaving the entry in pending_peers
abort_dial_keeps_entry(peer) ==
    /\ next_pc = "idle"
    /\ op' = [NoOp EXCEPT !.name = "abort_dial", !.peer = peer,
                          !.res = IF is_pending(peer) THEN "cancelled" ELSE "noop"]
    /\ IF is_pending(peer)
       THEN cancelled' = cancelled \cup {pending_peers[peer]}
       ELSE UNCHANGED cancelled
    /\ UNCHANGED <<pending, pending_peers, next_pc>>

\* Dialer::abort_dial
abort_dial(peer) ==
    /\ next_pc = "idle"
    /\ op' = [NoOp EXCEPT !.name = "abort_dial", !.peer = peer,
                          !.res = IF is_pending(peer) THEN "cancelled" ELSE "noop"]
    /\ IF is_pending(peer)
       THEN /\ cancelled' = cancelled \cup {pending_peers[peer]}
            /\ pending_peers' = remove_peer(pending_peers, peer)
       ELSE UNCHANGED <<pending_peers, cancelled>>
    /\ UNCHANGED <<pending, next_pc>>

\* endpoint.connect(..) settling, with success or with a failure
connect_settles(i, outcome) ==
    /\ i \in DOMAIN pending
    /\ pending[i].conn = "connecting"
    /\ pending' = [pending EXCEPT ![i].conn = outcome]
    /\ op' = NoOp
    /\ UNCHANGED <<pending_peers, cancelled, next_pc>>

\* next leaving the entry of the completed attempt's peer in pending_peers
peers_after_next_keeps_entry(i) == pending_peers

\* next removing the entry only when it belongs to the attempt that completed
peers_after_next_same_token(i) ==
    IF is_pending(pending[i].peer) /\ pending_peers[pending[i].peer] = i
    THEN remove_peer(pending_peers, pending[i].peer)
    ELSE pending_peers

\* Dialer::next, self.pending_peers.remove(&peer_id) for the attempt i that completed
peers_after_next(i) == remove_peer(pending_peers, pending[i].peer)

\* next without the match on pending_peers.is_empty()
next_call_always_polls ==
    /\ next_pc = "idle"
    /\ next_pc' = "polling"
    /\ op' = NoOp
    /\ UNCHANGED <<pending, pending_peers, cancelled>>

\* Dialer::next, first poll: the match on pending_peers.is_empty()
next_call ==
    /\ next_pc = "idle"
    /\ next_pc' = IF DOMAIN pending_peers = {} THEN "parked" ELSE "polling"
    /\ op' = NoOp
    /\ UNCHANGED <<pending, pending_peers, cancelled>>

\* Dialer::next, the false arm: pending.next().await.unwrap() yields the
\* attempt i, whose peer is removed from pending_peers.  An empty
\* FuturesUnordered yields None and the unwrap panics.  The attempt's future
\* and, with it, the last clone of its token are dropped.
next_poll(i) ==
    /\ next_pc = "polling"
    /\ IF DOMAIN pending = {}
       THEN /\ i = 0
            /\ next_pc' = "panicked"
            /\ op' = [NoOp EXCEPT !.name = "next", !.res = "panic"]
            /\ UNCHANGED <<pending, pending_peers, cancelled>>
       ELSE /\ i \in DOMAIN pending
            /\ poll_attempt(i) # "Pending"
            /\ pending' = remove_attempt(pending, i)
            /\ pending_peers' = peers_after_next(i)
            /\ cancelled' = cancelled \ {i}
            /\ op' = [name |-> "next", peer |-> pending[i].peer, id |-> i,
                      res |-> poll_attempt(i), conn |-> pending[i].conn,
                      aborted |-> i \in cancelled]
            /\ next_pc' = "idle"

\* The caller drops the future of Dialer::next before it completed.
next_drop ==
    /\ next_pc \in {"parked", "polling"}
    /\ next_pc' = "idle"
    /\ op' = NoOp
    /\ UNCHANGED <<pending, pending_peers, cancelled>>

\* ------------------------------------------------------------------ Timers

NoTop == [name |-> "none", instant |-> 0, item |-> 0, drained |-> <<>>]

\* Timers::new
timers_new ==
    /\ timers_next = <<>>
    /\ timers_map = <<>>
    /\ now = 0
    /\ inserted = 0
    /\ wd_pc = "idle"
    /\ top = NoTop

\* TimerMap::insert: push the item on the entry of its instant
timer_map_insert(m, instant, item) ==
    [t \in DOMAIN m \cup {instant} |->
        IF t = instant
        THEN (IF t \in DOMAIN m THEN Append(m[t], item) ELSE <<item>>)
        ELSE m[t]]

\* the least instant of a non-empty set
min_instant(S) == CHOOSE t \in S : \A u \in S : t <= u

\* TimerMap::first: the entry with the least instant, if any
timer_map_first(m) == IF DOMAIN m = {} THEN <<>> ELSE <<min_instant(DOMAIN m)>>

\* the entries of m at the instants of S, flattened in ascending order of instant
RECURSIVE flatten_entries(_, _)
flatten_entries(m, S) ==
    IF S = {} THEN <<>>
    ELSE LET t == min_instant(S)
         IN  [k \in 1..Len(m[t]) |-> <<t, m[t][k]>>] \o flatten_entries(m, S \ {t})

\* TimerMap::drain_until, the entries returned: every entry at or before `until`
drain_until_items(m, until) == flatten_entries(m, {t \in DOMAIN m : t <= until})

\* TimerMap::drain_until, the entries kept
drain_until_rest(m, until) == [t \in {u \in DOMAIN m : u > until} |-> m[t]]

\* a reset that leaves the cached wake as it is
reset_next_keeps_cache(m) == timers_next

\* Timers::reset
reset_next(m) == timer_map_first(m)

\* sleep_until(instant), polled: ready once the instant has been reached, and
\* ready again on every later poll
sleep_ready(instant) == now >= instant

\* insert without the call of reset
insert_no_reset(instant, item) ==
    /\ wd_pc = "idle"
    /\ inserted < MaxInserts
    /\ item = inserted + 1
    /\ inserted' = item
    /\ timers_map' = timer_map_insert(timers_map, instant, item)
    /\ top' = [NoTop EXCEPT !.name = "insert", !.instant = instant, !.item = item]
    /\ UNCHANGED <<timers_next, now, wd_pc>>

\* Timers::insert
insert(instant, item) ==
    /\ wd_pc = "idle"
    /\ inserted < MaxInserts
    /\ item = inserted + 1
    /\ inserted' = item
    /\ timers_map' = timer_map_insert(timers_map, instant, item)
    /\ timers_next' = reset_next(timers_map')
    /\ top' = [NoTop EXCEPT !.name = "insert", !.instant = instant, !.item = item]
    /\ UNCHANGED <<now, wd_pc>>

\* Timers::reset
reset ==
    /\ wd_pc = "idle"
    /\ timers_next' = reset_next(timers_map)
    /\ top' = [NoTop EXCEPT !.name = "reset"]
    /\ UNCHANGED <<timers_map, now, inserted, wd_pc>>

\* Timers::wait_and_drain, first poll: the match on self.next
wait_and_drain_call ==
    /\ wd_pc = "idle"
    /\ wd_pc' = IF timers_next = <<>> THEN "parked" ELSE "sleeping"
    /\ top' = NoTop
    /\ UNCHANGED <<timers_next, timers_map, now, inserted>>

\* wait_and_drain draining up to the current time instead of the cached instant
wait_and_drain_wake_until_now ==
    /\ wd_pc = "sleeping"
    /\ sleep_ready(timers_next[1])
    /\ top' = [NoTop EXCEPT !.name = "wait_and_drain", !.instant = timers_next[1],
                            !.drained = drain_until_items(timers_map, now)]
    /\ timers_map' = drain_until_rest(timers_map, now)
    /\ wd_pc' = "idle"
    /\ UNCHANGED <<timers_next, now, inserted>>

\* wait_and_drain returning the due entries and leaving them in the map
wait_and_drain_wake_keeps_entries ==
    /\ wd_pc = "sleeping"
    /\ sleep_ready(timers_next[1])
    /\ top' = [NoTop EXCEPT !.name = "wait_and_drain", !.instant = timers_next[1],
                            !.drained = drain_until_items(timers_map, timers_next[1])]
    /\ wd_pc' = "idle"
    /\ UNCHANGED <<timers_map, timers_next, now, inserted>>

\* Timers::wait_and_drain, the Some arm: sleep.await completes and the entries
\* up to the cached instant are drained; self.next is left as it was
wait_and_drain_wake ==
    /\ wd_pc = "sleeping"
    /\ sleep_ready(timers_next[1])
    /\ top' = [NoTop EXCEPT !.name = "wait_and_drain", !.instant = timers_next[1],
                            !.drained = drain_until_items(timers_map, timers_next[1])]
    /\ timers_map' = drain_until_rest(timers_map, timers_next[1])
    /\ wd_pc' = "idle"
    /\ UNCHANGED <<timers_next, now, inserted>>

\* The caller drops the future of Timers::wait_and_drain before it completed.
wait_and_drain_drop ==
    /\ wd_pc \in {"parked", "sleeping"}
    /\ wd_pc' = "idle"
    /\ top' = NoTop
    /\ UNCHANGED <<timers_next, timers_map, now, inserted>>

\* time passes
tick ==
    /\ now < MaxTime
    /\ now' = now + 1
    /\ top' = NoTop
    /\ UNCHANGED <<timers_next, timers_map, inserted, wd_pc>>

\* ----------------------------------------------------------------- framing

\* the u8 values bytes are drawn from
ByteValues == 0..3

\* super::MAX_MESSAGE_SIZE, scaled down
MAX_MESSAGE_SIZE == 3

\* the u8 values the fields of a written message are drawn from
FieldValues == 0..1

\* ProtoMessage: an enum whose variant number tag carries tag fields of type u8
Messages == UNION {[tag : {t}, fields : [1..t -> FieldValues]] : t \in 0..MaxFields}

NoMsg == [tag |-> 0, fields |-> <<>>]

\* postcard::experimental::serialized_size
serialized_size(m) == 1 + Len(m.fields)

\* postcard::to_slice: the variant number, then the fields
to_slice(m) == <<m.tag>> \o m.fields

\* postcard::from_bytes: fails on no byte, on an unknown variant and on missing
\* fields; bytes after the last field are ignored
from_bytes(data) ==
    IF Len(data) = 0 THEN [ok |-> FALSE, msg |-> NoMsg]
    ELSE IF data[1] > MaxFields THEN [ok |-> FALSE, msg |-> NoMsg]
    ELSE IF Len(data) < 1 + data[1] THEN [ok |-> FALSE, msg |-> NoMsg]
    ELSE [ok |-> TRUE,
          msg |-> [tag |-> data[1], fields |-> SubSeq(data, 2, 1 + data[1])]]

\* the four bytes of a u32, least significant first
le_bytes(n) ==
    <<n % 256, (n \div 256) % 256, (n \div 65536) % 256, (n \div 16777216) % 256>>

\* write_u32: the four bytes of a u32, most significant first
be_bytes(n) ==
    <<(n \div 16777216) % 256, (n \div 65536) % 256, (n \div 256) % 256, n % 256>>

\* read_u32: the u32 of four bytes, most significant first
be_u32(b) == b[1] * 16777216 + b[2] * 65536 + b[3] * 256 + b[4]

\* BytesMut::split_to(size): the bytes split off and the bytes kept
split_front(buf, size) == SubSeq(buf, 1, size)
\* a copy of the first size bytes is returned and the buffer keeps them
split_rest_keeps_all(buf, size) == buf

\* BytesMut::split_to(size): the bytes kept in the buffer
split_rest(buf, size) == SubSeq(buf, size + 1, Len(buf))

NoW == [name |-> "none", msg |-> NoMsg, res |-> "none", wrote |-> <<>>]
NoR == [name |-> "none", kind |-> "none", data |-> <<>>, taken |-> <<>>, buf0 |-> <<>>]

\* the buffers a caller hands to read_lp
ReadBuffers == {<<>>, <<1>>}

\* a stream with nothing written, fresh buffers
framing_new ==
    /\ scratch = <<>>
    /\ w_pc = "idle"
    /\ w_msg = NoMsg
    /\ w_wrote = <<>>
    /\ w_calls = 0
    /\ torn = FALSE
    /\ wire = <<>>
    /\ closed = FALSE
    /\ sent = <<>>
    /\ raw_count = 0
    /\ wtop = NoW
    /\ r_pc = "idle"
    /\ r_taken = <<>>
    /\ r_buf0 = <<>>
    /\ rbuf = <<>>
    /\ reads = 0
    /\ rtop = NoR

\* a stream with nothing written, the reader's buffer as the caller left it
framing_init ==
    /\ scratch = <<>>
    /\ w_pc = "idle"
    /\ w_msg = NoMsg
    /\ w_wrote = <<>>
    /\ w_calls = 0
    /\ torn = FALSE
    /\ wire = <<>>
    /\ closed = FALSE
    /\ sent = <<>>
    /\ raw_count = 0
    /\ wtop = NoW
    /\ r_pc = "idle"
    /\ r_taken = <<>>
    /\ r_buf0 = <<>>
    /\ rbuf \in ReadBuffers
    /\ reads = 0
    /\ rtop = NoR

\* write_message with the size check admitting the maximum itself
write_message_call_admits_max(m, n) ==
    /\ w_pc = "idle"
    /\ ~closed
    /\ raw_count = 0
    /\ w_calls < MaxWrites
    /\ IF ~(serialized_size(m) <= MAX_MESSAGE_SIZE)
       THEN /\ n = 0
            /\ wtop' = [NoW EXCEPT !.name = "write_message", !.msg = m, !.res = "Err"]
            /\ UNCHANGED <<scratch, w_pc, w_msg, w_wrote, w_calls, torn, w_wrote, w_calls, wire, sent>>
       ELSE LET frame == be_bytes(serialized_size(m)) \o to_slice(m)
                chunk == SubSeq(frame, 1, n)
            IN  /\ n <= Len(frame)
                /\ scratch' = to_slice(m)
                /\ wire' = wire \o chunk
                /\ w_calls' = w_calls + 1
                /\ IF chunk = frame
                   THEN /\ w_pc' = "idle"
                        /\ w_msg' = NoMsg
                        /\ w_wrote' = <<>>
                        /\ sent' = Append(sent, m)
                        /\ wtop' = [name |-> "write_message", msg |-> m, res |-> "Ok",
                                    wrote |-> frame]
                   ELSE /\ w_pc' = IF Len(chunk) < 4 THEN "prefix" ELSE "payload"
                        /\ w_msg' = m
                        /\ w_wrote' = chunk
                        /\ wtop' = NoW
                        /\ UNCHANGED sent
    /\ rtop' = NoR
    /\ UNCHANGED <<closed, raw_count, torn, r_pc, r_taken, r_buf0, rbuf, reads>>

\* write_message polled for the first time, the stream taking n bytes during
\* the poll (none when the size check fails): the size check, the scratch
\* buffer cleared, resized and filled, then write_u32 and write_all as far as
\* the stream takes bytes.  The call returns Ok when the whole frame is
\* written, and is left pending inside write_u32 ("prefix") or write_all
\* ("payload") otherwise.
write_message_call(m, n) ==
    /\ w_pc = "idle"
    /\ ~closed
    /\ raw_count = 0
    /\ w_calls < MaxWrites
    /\ IF ~(serialized_size(m) < MAX_MESSAGE_SIZE)
       THEN /\ n = 0
            /\ wtop' = [NoW EXCEPT !.name = "write_message", !.msg = m, !.res = "Err"]
            /\ UNCHANGED <<scratch, w_pc, w_msg, w_wrote, w_calls, torn, w_wrote, w_calls, wire, sent>>
       ELSE LET frame == be_bytes(serialized_size(m)) \o to_slice(m)
                chunk == SubSeq(frame, 1, n)
            IN  /\ n <= Len(frame)
                /\ scratch' = to_slice(m)
                /\ wire' = wire \o chunk
                /\ w_calls' = w_calls + 1
                /\ IF chunk = frame
                   THEN /\ w_pc' = "idle"
                        /\ w_msg' = NoMsg
                        /\ w_wrote' = <<>>
                        /\ sent' = Append(sent, m)
                        /\ wtop' = [name |-> "write_message", msg |-> m, res |-> "Ok",
                                    wrote |-> frame]
                   ELSE /\ w_pc' = IF Len(chunk) < 4 THEN "prefix" ELSE "payload"
                        /\ w_msg' = m
                        /\ w_wrote' = chunk
                        /\ wtop' = NoW
                        /\ UNCHANGED sent
    /\ rtop' = NoR
    /\ UNCHANGED <<closed, raw_count, torn, r_pc, r_taken, r_buf0, rbuf, reads>>

\* write_message polled again, the stream taking n more bytes: write_u32 and
\* write_all go on from the byte they stopped at
write_message_poll(n) ==
    /\ w_pc \in {"prefix", "payload"}
    /\ LET frame == be_bytes(serialized_size(w_msg)) \o scratch
           left == SubSeq(frame, Len(w_wrote) + 1, Len(frame))
           chunk == SubSeq(left, 1, n)
       IN  /\ n <= Len(left)
           /\ wire' = wire \o chunk
           /\ IF chunk = left
              THEN /\ w_pc' = "idle"
                   /\ w_msg' = NoMsg
                   /\ w_wrote' = <<>>
                   /\ sent' = Append(sent, w_msg)
                   /\ wtop' = [name |-> "write_message", msg |-> w_msg, res |-> "Ok",
                               wrote |-> w_wrote \o chunk]
              ELSE /\ w_pc' = IF Len(w_wrote) + Len(chunk) < 4 THEN "prefix" ELSE "payload"
                   /\ w_wrote' = w_wrote \o chunk
                   /\ wtop' = NoW
                   /\ UNCHANGED <<w_msg, sent>>
    /\ rtop' = NoR
    /\ UNCHANGED <<scratch, w_calls, closed, raw_count, torn,
                   r_pc, r_taken, r_buf0, rbuf, reads>>

\* the future of write_message is dropped before it completed: the scratch
\* buffer keeps the payload, the stream keeps the bytes written so far
write_message_drop ==
    /\ w_pc \in {"prefix", "payload"}
    /\ w_pc' = "idle"
    /\ w_msg' = NoMsg
    /\ w_wrote' = <<>>
    /\ torn' = (torn \/ w_wrote # <<>>)
    /\ wtop' = NoW
    /\ rtop' = NoR
    /\ UNCHANGED <<scratch, w_calls, wire, closed, sent, raw_count,
                   r_pc, r_taken, r_buf0, rbuf, reads>>

\* a peer that does not use write_message writes a byte to the stream
stream_write(b) ==
    /\ ~closed
    /\ w_pc = "idle"
    /\ w_calls = 0
    /\ raw_count < MaxRaw
    /\ raw_count' = raw_count + 1
    /\ wire' = Append(wire, b)
    /\ wtop' = NoW
    /\ rtop' = NoR
    /\ UNCHANGED <<scratch, w_pc, w_msg, w_wrote, w_calls, torn, closed, sent, r_pc, r_taken, r_buf0, rbuf, reads>>

\* the writing end of the stream is closed
stream_close ==
    /\ ~closed
    /\ w_pc = "idle"
    /\ closed' = TRUE
    /\ wtop' = NoW
    /\ rtop' = NoR
    /\ UNCHANGED <<scratch, w_pc, w_msg, w_wrote, w_calls, torn, wire, sent, raw_count,
                   r_pc, r_taken, r_buf0, rbuf, reads>>

\* read_lp begins: read_u32 has no byte yet
read_lp_call ==
    /\ r_pc = "idle"
    /\ reads < MaxReads
    /\ r_pc' = "prefix"
    /\ r_taken' = <<>>
    /\ r_buf0' = rbuf
    /\ rtop' = NoR
    /\ wtop' = NoW
    /\ UNCHANGED <<scratch, w_pc, w_msg, w_wrote, w_calls, torn, wire, closed, sent, raw_count, rbuf, reads>>

\* read_lp returns (or panics) with the bytes taken from the stream
read_lp_returns(kind, data, taken) ==
    /\ r_pc' = IF kind = "panic" THEN "panicked" ELSE "idle"
    /\ reads' = reads + 1
    /\ rtop' = [name |-> "read_lp", kind |-> kind, data |-> data, taken |-> taken,
                buf0 |-> r_buf0]
    /\ r_taken' = <<>>
    /\ r_buf0' = <<>>

\* read_lp decoding the length prefix least significant byte first
read_lp_prefix_little_endian(n) ==
    /\ r_pc = "prefix"
    /\ n \in 1..Len(wire)
    /\ n <= 4 - Len(r_taken)
    /\ wire' = SubSeq(wire, n + 1, Len(wire))
    /\ LET taken == r_taken \o SubSeq(wire, 1, n)
           le_u32(b) == b[4] * 16777216 + b[3] * 65536 + b[2] * 256 + b[1] IN
       IF Len(taken) < 4
       THEN /\ r_taken' = taken
            /\ rtop' = NoR
            /\ UNCHANGED <<r_pc, r_buf0, rbuf, reads>>
       ELSE IF le_u32(taken) > MAX_MESSAGE_SIZE
       THEN /\ read_lp_returns("Err", <<>>, taken)
            /\ UNCHANGED rbuf
       ELSE IF le_u32(taken) = 0
       THEN /\ read_lp_returns("Some", split_front(rbuf, 0), taken)
            /\ rbuf' = split_rest(rbuf, 0)
       ELSE /\ r_pc' = "payload"
            /\ r_taken' = taken
            /\ rtop' = NoR
            /\ UNCHANGED <<r_buf0, rbuf, reads>>
    /\ wtop' = NoW
    /\ UNCHANGED <<scratch, w_pc, w_msg, w_wrote, w_calls, torn, closed, sent, raw_count>>

\* read_lp taking a declared size of 0 for the end of the stream
read_lp_prefix_zero_is_none(n) ==
    /\ r_pc = "prefix"
    /\ n \in 1..Len(wire)
    /\ n <= 4 - Len(r_taken)
    /\ wire' = SubSeq(wire, n + 1, Len(wire))
    /\ LET taken == r_taken \o SubSeq(wire, 1, n) IN
       IF Len(taken) < 4
       THEN /\ r_taken' = taken
            /\ rtop' = NoR
            /\ UNCHANGED <<r_pc, r_buf0, rbuf, reads>>
       ELSE IF be_u32(taken) > MAX_MESSAGE_SIZE
       THEN /\ read_lp_returns("Err", <<>>, taken)
            /\ UNCHANGED rbuf
       ELSE IF be_u32(taken) = 0
       THEN /\ read_lp_returns("None", <<>>, taken)
            /\ UNCHANGED rbuf
       ELSE /\ r_pc' = "payload"
            /\ r_taken' = taken
            /\ rtop' = NoR
            /\ UNCHANGED <<r_buf0, rbuf, reads>>
    /\ wtop' = NoW
    /\ UNCHANGED <<scratch, w_pc, w_msg, w_wrote, w_calls, torn, closed, sent, raw_count>>

\* read_u32 takes the next n bytes of the stream; with the fourth byte the
\* size is checked and, for a size of 0, the read loop ends at once
read_lp_prefix(n) ==
    /\ r_pc = "prefix"
    /\ n \in 1..Len(wire)
    /\ n <= 4 - Len(r_taken)
    /\ wire' = SubSeq(wire, n + 1, Len(wire))
    /\ LET taken == r_taken \o SubSeq(wire, 1, n) IN
       IF Len(taken) < 4
       THEN /\ r_taken' = taken
            /\ rtop' = NoR
            /\ UNCHANGED <<r_pc, r_buf0, rbuf, reads>>
       ELSE IF be_u32(taken) > MAX_MESSAGE_SIZE
       THEN /\ read_lp_returns("Err", <<>>, taken)
            /\ UNCHANGED rbuf
       ELSE IF be_u32(taken) = 0
       THEN /\ read_lp_returns("Some", split_front(rbuf, 0), taken)
            /\ rbuf' = split_rest(rbuf, 0)
       ELSE /\ r_pc' = "payload"
            /\ r_taken' = taken
            /\ rtop' = NoR
            /\ UNCHANGED <<r_buf0, rbuf, reads>>
    /\ wtop' = NoW
    /\ UNCHANGED <<scratch, w_pc, w_msg, w_wrote, w_calls, torn, closed, sent, raw_count>>

\* read_lp passing the UnexpectedEof of read_u32 on as an error
read_lp_prefix_eof_as_error ==
    /\ r_pc = "prefix"
    /\ wire = <<>>
    /\ closed
    /\ read_lp_returns("Err", <<>>, r_taken)
    /\ wtop' = NoW
    /\ UNCHANGED <<scratch, w_pc, w_msg, w_wrote, w_calls, torn, wire, closed, sent, raw_count, rbuf>>

\* read_u32 meets the end of the stream: UnexpectedEof, returned as Ok(None)
read_lp_prefix_eof ==
    /\ r_pc = "prefix"
    /\ wire = <<>>
    /\ closed
    /\ read_lp_returns("None", <<>>, r_taken)
    /\ wtop' = NoW
    /\ UNCHANGED <<scratch, w_pc, w_msg, w_wrote, w_calls, torn, wire, closed, sent, raw_count, rbuf>>

\* the declared size and what reader.take(size) still lets through
declared_size == be_u32(SubSeq(r_taken, 1, 4))
take_limit == declared_size - (Len(r_taken) - 4)

\* read_lp calling read_buf once instead of looping until it returns 0
read_lp_payload_single_read(n) ==
    /\ r_pc = "payload"
    /\ n \in 1..Len(wire)
    /\ n <= take_limit
    /\ wire' = SubSeq(wire, n + 1, Len(wire))
    /\ LET taken == r_taken \o SubSeq(wire, 1, n)
           buf == rbuf \o SubSeq(wire, 1, n) IN
       IF declared_size > Len(buf)
       THEN /\ read_lp_returns("panic", <<>>, taken)
            /\ rbuf' = buf
       ELSE /\ read_lp_returns("Some", split_front(buf, declared_size), taken)
            /\ rbuf' = split_rest(buf, declared_size)
    /\ wtop' = NoW
    /\ UNCHANGED <<scratch, w_pc, w_msg, w_wrote, w_calls, torn, closed, sent, raw_count>>

\* read_buf appends the next n bytes of the stream to the buffer; when the
\* limit of take is used up the next read_buf returns 0 and split_to(size)
\* is returned
read_lp_payload(n) ==
    /\ r_pc = "payload"
    /\ n \in 1..Len(wire)
    /\ n <= take_limit
    /\ wire' = SubSeq(wire, n + 1, Len(wire))
    /\ LET taken == r_taken \o SubSeq(wire, 1, n)
           buf == rbuf \o SubSeq(wire, 1, n) IN
       IF n < take_limit
       THEN /\ r_taken' = taken
            /\ rbuf' = buf
            /\ rtop' = NoR
            /\ UNCHANGED <<r_pc, r_buf0, reads>>
       ELSE /\ read_lp_returns("Some", split_front(buf, declared_size), taken)
            /\ rbuf' = split_rest(buf, declared_size)
    /\ wtop' = NoW
    /\ UNCHANGED <<scratch, w_pc, w_msg, w_wrote, w_calls, torn, closed, sent, raw_count>>

\* read_buf meets the end of the stream and returns 0: the loop ends and
\* split_to(size) panics when the buffer holds fewer than size bytes
read_lp_payload_eof ==
    /\ r_pc = "payload"
    /\ wire = <<>>
    /\ closed
    /\ IF declared_size > Len(rbuf)
       THEN /\ read_lp_returns("panic", <<>>, r_taken)
            /\ UNCHANGED rbuf
       ELSE /\ read_lp_returns("Some", split_front(rbuf, declared_size), r_taken)
            /\ rbuf' = split_rest(rbuf, declared_size)
    /\ wtop' = NoW
    /\ UNCHANGED <<scratch, w_pc, w_msg, w_wrote, w_calls, torn, wire, closed, sent, raw_count>>

\* read_lp on a buffer buf when every read delivers all it asks for: read_u32
\* gets the four prefix bytes of the frame at once and one read_buf gets the
\* whole payload
read_lp_one_chunk(buf, frame) ==
    IF be_u32(SubSeq(frame, 1, 4)) > MAX_MESSAGE_SIZE
    THEN [kind |-> "Err", data |-> <<>>, buf |-> buf]
    ELSE [kind |-> "Some",
          data |-> split_front(buf \o SubSeq(frame, 5, Len(frame)),
                               be_u32(SubSeq(frame, 1, 4))),
          buf |-> split_rest(buf \o SubSeq(frame, 5, Len(frame)),
                             be_u32(SubSeq(frame, 1, 4)))]

\* read_message on the outcome of its read_lp call: None is passed on, the
\* bytes of Some are decoded, an error of read_lp or of the decoding is returned
read_message(res) ==
    IF res.kind = "None" THEN [kind |-> "None", msg |-> NoMsg]
    ELSE IF res.kind = "Some"
    THEN IF from_bytes(res.data).ok
         THEN [kind |-> "Some", msg |-> from_bytes(res.data).msg]
         ELSE [kind |-> "Err", msg |-> NoMsg]
    ELSE [kind |-> res.kind, msg |-> NoMsg]

\* the error read_message returns, by the type the anyhow::Error wraps: the
\* error of read_lp passed on by `?`, or the postcard::Error of from_bytes
read_message_error(res) ==
    IF res.kind = "Err" THEN "framing"
    ELSE IF res.kind = "Some" /\ ~from_bytes(res.data).ok THEN "decode"
    ELSE "none"

\* ------------------------------------------------------------ specifications

\* ------------------------------------------- varint framing (src/src/protocol.rs)

\* the u8 values a peer writes to the stream: 128 is a lone continuation bit
ProtocolBytes == {0, 1, 2, 128}

\* the u8 values the payloads handed to write_lp are made of
PayloadBytes == 0..1

\* MAX_MESSAGE_SIZE of protocol.rs (100 MiB), scaled down
PROTOCOL_MAX_MESSAGE_SIZE == 2

\* the payloads handed to write_lp: every length up to the maximum message size
Payloads == UNION {[1..n -> PayloadBytes] : n \in 0..PROTOCOL_MAX_MESSAGE_SIZE}

NoPW == [name |-> "none", data |-> <<>>, res |-> "none"]
NoPR == [name |-> "none", kind |-> "none", err |-> "none", data |-> <<>>,
         size |-> 0, msg |-> NoMsg]

protocol_new ==
    /\ p_wire = <<>>
    /\ p_closed = FALSE
    /\ p_written = 0
    /\ p_wtop = NoPW
    /\ p_wpc = "idle"
    /\ p_wdata = <<>>
    /\ p_wrote = <<>>
    /\ p_buffer = <<>>
    /\ p_pc = "idle"
    /\ p_fn = "none"
    /\ p_size = 0
    /\ p_zero_reads = 0
    /\ p_top = NoPR

\* unsigned_varint::encode::u64: groups of seven bits, least significant group
\* first, the continuation bit set on every byte but the last
RECURSIVE varint_encode(_)
varint_encode(n) ==
    IF n < 128 THEN <<n>> ELSE <<(n % 128) + 128>> \o varint_encode(n \div 128)

\* unsigned_varint::decode::u64 on the bytes from index i on (counted from 0),
\* acc being the value of the groups before i.  A value of 2^28 or more (above
\* the maximum message size of the source too) is represented by 2^29.
RECURSIVE varint_decode_from(_, _, _)
varint_decode_from(buf, i, acc) ==
    IF i >= Len(buf)
    THEN [ok |-> FALSE, err |-> "Insufficient", value |-> 0, used |-> 0]
    ELSE LET b == buf[i + 1]
             k == b % 128
             shifted == IF k = 0 THEN 0
                        ELSE IF i >= 4 THEN 536870912
                        ELSE k * (128 ^ i)
             n == IF acc + shifted > 536870912 THEN 536870912 ELSE acc + shifted
         IN  IF b < 128
             THEN IF b = 0 /\ i > 0
                  THEN [ok |-> FALSE, err |-> "NotMinimal", value |-> 0, used |-> 0]
                  ELSE [ok |-> TRUE, err |-> "none", value |-> n, used |-> i + 1]
             ELSE IF i = 9
             THEN [ok |-> FALSE, err |-> "Overflow", value |-> 0, used |-> 0]
             ELSE varint_decode_from(buf, i + 1, n)

\* unsigned_varint::decode::u64(&buffer[..])
varint_decode(buf) == varint_decode_from(buf, 0, 0)

\* read_prefix, one turn of its loop on the bytes buffered so far: the prefix
\* decodes (and is split off the buffer, or is too large), or more bytes are
\* read; every decoding error is taken as "not decodable yet"
read_prefix(buf) ==
    LET d == varint_decode(buf)
    IN  IF ~d.ok
        THEN [kind |-> "more", size |-> 0, buffer |-> buf]
        ELSE IF ~(d.value < PROTOCOL_MAX_MESSAGE_SIZE)
        THEN [kind |-> "too large", size |-> 0, buffer |-> buf]
        ELSE [kind |-> "size", size |-> d.value, buffer |-> split_rest(buf, d.used)]

\* read_lp and read_lp_data from the test of `while buffer.len() < size` on:
\* the call goes on reading, or returns.  read_lp decodes the first size bytes
\* and leaves them in the buffer; read_lp_data splits them off.
protocol_payload(f, size, buf) ==
    IF Len(buf) < size
    THEN [pc |-> "payload", size |-> size, buffer |-> buf, top |-> NoPR]
    ELSE IF f = "read_lp"
    THEN LET r == from_bytes(split_front(buf, size))
         IN  IF r.ok
             THEN [pc |-> "idle", size |-> 0, buffer |-> buf,
                   top |-> [name |-> f, kind |-> "Some", err |-> "none",
                            data |-> split_front(buf, size), size |-> size,
                            msg |-> r.msg]]
             ELSE [pc |-> "idle", size |-> 0, buffer |-> buf,
                   top |-> [name |-> f, kind |-> "Err", err |-> "decode",
                            data |-> <<>>, size |-> size, msg |-> NoMsg]]
    ELSE [pc |-> "idle", size |-> 0, buffer |-> split_rest(buf, size),
          top |-> [name |-> f, kind |-> "Some", err |-> "none",
                   data |-> split_front(buf, size), size |-> size, msg |-> NoMsg]]

\* read_lp and read_lp_data from where they stand (pc) with the buffer buf, up
\* to their next read of the stream or their return
protocol_resume(f, pc, size, buf) ==
    IF pc = "prefix"
    THEN LET p == read_prefix(buf)
         IN  IF p.kind = "more"
             THEN [pc |-> "prefix", size |-> 0, buffer |-> buf, top |-> NoPR]
             ELSE IF p.kind = "size"
             THEN protocol_payload(f, p.size, p.buffer)
             ELSE [pc |-> "idle", size |-> 0, buffer |-> p.buffer,
                   top |-> [name |-> f, kind |-> "Err", err |-> p.kind,
                            data |-> <<>>, size |-> 0, msg |-> NoMsg]]
    ELSE protocol_payload(f, size, buf)

\* write_lp(writer, data) polled for the first time, the stream taking n
\* bytes during the poll (none when the size check fails): the size check,
\* then write_all of the varint of the length and write_all of the data as
\* far as the stream takes bytes.  The call returns
\* Ok when both are written, and is left pending inside the first write_all
\* ("prefix") or the second ("payload") otherwise.
write_lp(data, n) ==
    /\ p_wpc = "idle"
    /\ ~p_closed
    /\ p_written + Len(varint_encode(Len(data))) + Len(data) <= MaxProtocolBytes
    /\ IF ~(Len(data) < PROTOCOL_MAX_MESSAGE_SIZE)
       THEN /\ n = 0
            /\ p_wtop' = [name |-> "write_lp", data |-> data, res |-> "Err"]
            /\ UNCHANGED <<p_wire, p_written, p_wpc, p_wdata, p_wrote>>
       ELSE LET lp == varint_encode(Len(data))
                frame == lp \o data
                chunk == SubSeq(frame, 1, n)
            IN  /\ n <= Len(frame)
                /\ p_wire' = p_wire \o chunk
                /\ p_written' = p_written + Len(chunk)
                /\ IF chunk = frame
                   THEN /\ p_wpc' = "idle"
                        /\ p_wdata' = <<>>
                        /\ p_wrote' = <<>>
                        /\ p_wtop' = [name |-> "write_lp", data |-> data, res |-> "Ok"]
                   ELSE /\ p_wpc' = IF Len(chunk) < Len(lp) THEN "prefix" ELSE "payload"
                        /\ p_wdata' = data
                        /\ p_wrote' = chunk
                        /\ p_wtop' = NoPW
    /\ p_top' = NoPR
    /\ UNCHANGED <<p_closed, p_buffer, p_pc, p_fn, p_size, p_zero_reads>>

\* write_lp polled again, the stream taking n more bytes
write_lp_poll(n) ==
    /\ p_wpc \in {"prefix", "payload"}
    /\ LET lp == varint_encode(Len(p_wdata))
           frame == lp \o p_wdata
           left == SubSeq(frame, Len(p_wrote) + 1, Len(frame))
           chunk == SubSeq(left, 1, n)
       IN  /\ n <= Len(left)
           /\ p_wire' = p_wire \o chunk
           /\ p_written' = p_written + Len(chunk)
           /\ IF chunk = left
              THEN /\ p_wpc' = "idle"
                   /\ p_wdata' = <<>>
                   /\ p_wrote' = <<>>
                   /\ p_wtop' = [name |-> "write_lp", data |-> p_wdata, res |-> "Ok"]
              ELSE /\ p_wpc' = IF Len(p_wrote) + Len(chunk) < Len(lp)
                               THEN "prefix" ELSE "payload"
                   /\ p_wrote' = p_wrote \o chunk
                   /\ p_wtop' = NoPW
                   /\ UNCHANGED p_wdata
    /\ p_top' = NoPR
    /\ UNCHANGED <<p_closed, p_buffer, p_pc, p_fn, p_size, p_zero_reads>>

\* the future of write_lp is dropped before it completed: the stream keeps
\* the bytes written so far
write_lp_drop ==
    /\ p_wpc \in {"prefix", "payload"}
    /\ p_wpc' = "idle"
    /\ p_wdata' = <<>>
    /\ p_wrote' = <<>>
    /\ p_wtop' = NoPW
    /\ p_top' = NoPR
    /\ UNCHANGED <<p_wire, p_written, p_closed, p_buffer, p_pc, p_fn, p_size,
                   p_zero_reads>>

\* a peer writes one byte to the stream without write_lp
protocol_stream_write(b) ==
    /\ p_wpc = "idle"
    /\ p_written < MaxProtocolBytes
    /\ ~p_closed
    /\ p_wire' = Append(p_wire, b)
    /\ p_written' = p_written + 1
    /\ p_wtop' = NoPW
    /\ UNCHANGED <<p_wpc, p_wdata, p_wrote>>
    /\ p_top' = NoPR
    /\ UNCHANGED <<p_closed, p_buffer, p_pc, p_fn, p_size, p_zero_reads>>

\* the writing end of the stream is closed
protocol_stream_close ==
    /\ p_wpc = "idle"
    /\ ~p_closed
    /\ p_closed' = TRUE
    /\ p_wtop' = NoPW
    /\ UNCHANGED <<p_wpc, p_wdata, p_wrote>>
    /\ p_top' = NoPR
    /\ UNCHANGED <<p_wire, p_written, p_buffer, p_pc, p_fn, p_size, p_zero_reads>>

\* read_lp(reader, buffer) or read_lp_data(reader, buffer) is called: it runs
\* on the bytes the buffer holds up to its first read of the stream
protocol_read_call(f) ==
    /\ p_pc = "idle"
    /\ LET r == protocol_resume(f, "prefix", 0, p_buffer)
       IN  /\ p_pc' = r.pc
           /\ p_size' = r.size
           /\ p_buffer' = r.buffer
           /\ p_top' = r.top
           /\ p_fn' = IF r.pc = "idle" THEN "none" ELSE f
    /\ p_zero_reads' = 0
    /\ p_wtop' = NoPW
    /\ UNCHANGED <<p_wpc, p_wdata, p_wrote>>
    /\ UNCHANGED <<p_wire, p_closed, p_written>>

\* a stream that ends while the prefix is read yields None
protocol_read_buf_eof_none ==
    /\ p_pc \in {"prefix", "payload"}
    /\ p_wire = <<>>
    /\ p_closed
    /\ IF p_pc = "prefix"
       THEN /\ p_pc' = "idle"
            /\ p_fn' = "none"
            /\ p_zero_reads' = 0
            /\ p_top' = [name |-> p_fn, kind |-> "None", err |-> "none",
                         data |-> <<>>, size |-> 0, msg |-> NoMsg]
       ELSE /\ p_zero_reads' = 1 - p_zero_reads
            /\ p_top' = NoPR
            /\ UNCHANGED <<p_pc, p_fn>>
    /\ p_wtop' = NoPW
    /\ UNCHANGED <<p_wpc, p_wdata, p_wrote>>
    /\ UNCHANGED <<p_wire, p_closed, p_written, p_buffer, p_size>>

\* reader.read_buf(buffer) takes the next n bytes of the stream, and the call
\* runs on to its next read or its return
protocol_read_buf(n) ==
    /\ p_pc \in {"prefix", "payload"}
    /\ n <= Len(p_wire)
    /\ LET r == protocol_resume(p_fn, p_pc, p_size, p_buffer \o SubSeq(p_wire, 1, n))
       IN  /\ p_pc' = r.pc
           /\ p_size' = r.size
           /\ p_buffer' = r.buffer
           /\ p_top' = r.top
           /\ p_fn' = IF r.pc = "idle" THEN "none" ELSE p_fn
    /\ p_wire' = SubSeq(p_wire, n + 1, Len(p_wire))
    /\ p_zero_reads' = 0
    /\ p_wtop' = NoPW
    /\ UNCHANGED <<p_wpc, p_wdata, p_wrote>>
    /\ UNCHANGED <<p_closed, p_written>>

\* reader.read_buf(buffer) returns 0, the stream having ended: read_prefix
\* bails; the payload loop of read_lp and read_lp_data drops the count and
\* tests `buffer.len() < size` again, which nothing has changed.
\* p_zero_reads is the parity of the reads of the loop that returned 0.
protocol_read_buf_eof ==
    /\ p_pc \in {"prefix", "payload"}
    /\ p_wire = <<>>
    /\ p_closed
    /\ IF p_pc = "prefix"
       THEN /\ p_pc' = "idle"
            /\ p_fn' = "none"
            /\ p_zero_reads' = 0
            /\ p_top' = [name |-> p_fn, kind |-> "Err", err |-> "no more data",
                         data |-> <<>>, size |-> 0, msg |-> NoMsg]
       ELSE /\ p_zero_reads' = 1 - p_zero_reads
            /\ p_top' = NoPR
            /\ UNCHANGED <<p_pc, p_fn>>
    /\ p_wtop' = NoPW
    /\ UNCHANGED <<p_wpc, p_wdata, p_wrote>>
    /\ UNCHANGED <<p_wire, p_closed, p_written, p_buffer, p_size>>

\* ---------- NAT-PMP responses (src/iroh-net/src/hp/portmapper/nat_pmp/protocol/response.rs)

MIN_RESP_SIZE == 1 + 1 + 2 + 4 + 4
MAX_RESP_SIZE == 1 + 1 + 2 + 4 + 2 + 2 + 4

\* RESPONSE_INDICATOR: 1u8 << 7
RESPONSE_INDICATOR == 128

\* the buffers handed to Response::decode: every length up to MaxRespLen, the
\* version, the opcode and the result code drawn from values on both sides of
\* every test of decode, the other bytes counting up from fill
VersionBytes == {0, 1}
OpcodeBytes == {0, 1, 128, 129, 130, 131}
ResultCodeBytes == {<<0, c>> : c \in 0..6} \cup {<<1, 0>>}
FillBytes == {0, 1}

response_buffer(len, version, opcode, code, fill) ==
    [i \in 1..len |->
        IF i = 1 THEN version
        ELSE IF i = 2 THEN opcode
        ELSE IF i = 3 THEN code[1]
        ELSE IF i = 4 THEN code[2]
        ELSE fill + (i % 4)]

ResponseBuffers ==
    {response_buffer(len, version, opcode, code, fill) :
        len \in 0..MaxRespLen, version \in VersionBytes, opcode \in OpcodeBytes,
        code \in ResultCodeBytes, fill \in FillBytes}

NoResponse == [kind |-> "none", err |-> "none", response |-> <<>>]

natpmp_new ==
    /\ n_buf = <<>>
    /\ n_res = NoResponse

\* a buffer arrives and has not been decoded yet
natpmp_init ==
    /\ n_buf \in ResponseBuffers
    /\ n_res = NoResponse

\* u16::from_be_bytes
u16_from_be_bytes(b) == b[1] * 256 + b[2]

\* u32::from_be_bytes
u32_from_be_bytes(b) == b[1] * 16777216 + b[2] * 65536 + b[3] * 256 + b[4]

\* buf[from..to] (from counted from 0, to excluded), for a range inside buf
slice(buf, from, to) == SubSeq(buf, from + 1, to)

\* the errors Response::decode returns for the result codes other than Success
result_code_error(code) ==
    IF code = 1 THEN "UnsupportedVersion"
    ELSE IF code = 2 THEN "NotAuthorizedOrRefused"
    ELSE IF code = 3 THEN "NetworkFailure"
    ELSE IF code = 4 THEN "OutOfResources"
    ELSE "UnsupportedOpcode"

response_err(e) == [kind |-> "Err", err |-> e, response |-> <<>>]

\* Response::decode(buf): Ok(response), Err(error), or the panic of a range
\* that ends outside the buffer (buf[12..16] of a buffer shorter than 16)
decode(buf) ==
    IF Len(buf) < MIN_RESP_SIZE \/ Len(buf) > MAX_RESP_SIZE THEN response_err("Malformed")
    ELSE IF buf[1] # 0 THEN response_err("InvalidVersion")
    ELSE IF buf[2] < RESPONSE_INDICATOR THEN response_err("NotAResponse")
    ELSE IF buf[2] - RESPONSE_INDICATOR > 2 THEN response_err("InvalidOpcode")
    ELSE IF u16_from_be_bytes(slice(buf, 2, 4)) > 5 THEN response_err("InvalidResultCode")
    ELSE IF u16_from_be_bytes(slice(buf, 2, 4)) # 0
    THEN response_err(result_code_error(u16_from_be_bytes(slice(buf, 2, 4))))
    ELSE IF buf[2] - RESPONSE_INDICATOR = 0
    THEN [kind |-> "Ok", err |-> "none",
          response |-> [variant |-> "PublicAddress",
                        epoch_time |-> u32_from_be_bytes(slice(buf, 4, 8)),
                        public_ip |-> slice(buf, 8, 12)]]
    ELSE IF Len(buf) < 16
    THEN [kind |-> "panic", err |-> "range end index 16 out of range", response |-> <<>>]
    ELSE [kind |-> "Ok", err |-> "none",
          response |-> [variant |-> "PortMap",
                        proto |-> IF buf[2] - RESPONSE_INDICATOR = 1 THEN "UDP" ELSE "TCP",
                        epoch_time |-> u32_from_be_bytes(slice(buf, 4, 8)),
                        private_port |-> u16_from_be_bytes(slice(buf, 8, 10)),
                        external_port |-> u16_from_be_bytes(slice(buf, 10, 12)),
                        lifetime_seconds |-> u32_from_be_bytes(slice(buf, 12, 16))]]

\* a datagram of a server is decoded
response_decode ==
    /\ n_res.kind = "none"
    /\ n_res' = decode(n_buf)
    /\ UNCHANGED n_buf

\* ---------------------------------------------------------- specifications

Init == dialer_new /\ timers_new /\ framing_new /\ protocol_new /\ natpmp_new

DialerStep ==
    \/ \E peer \in Peers : queue_dial(peer) /\ UNCHANGED <<timers_vars, framing_vars, protocol_vars, natpmp_vars>>
    \/ \E peer \in Peers : abort_dial(peer) /\ UNCHANGED <<timers_vars, framing_vars, protocol_vars, natpmp_vars>>
    \/ \E i \in AttemptIds, outcome \in {"Ok", "Err"} :
          connect_settles(i, outcome) /\ UNCHANGED <<timers_vars, framing_vars, protocol_vars, natpmp_vars>>
    \/ next_call /\ UNCHANGED <<timers_vars, framing_vars, protocol_vars, natpmp_vars>>
    \/ \E i \in AttemptIds \cup {0} : next_poll(i) /\ UNCHANGED <<timers_vars, framing_vars, protocol_vars, natpmp_vars>>
    \/ next_drop /\ UNCHANGED <<timers_vars, framing_vars, protocol_vars, natpmp_vars>>

TimersStep ==
    \/ \E instant \in Instants, item \in 1..MaxInserts :
          insert(instant, item) /\ UNCHANGED <<dialer_vars, framing_vars, protocol_vars, natpmp_vars>>
    \/ reset /\ UNCHANGED <<dialer_vars, framing_vars, protocol_vars, natpmp_vars>>
    \/ wait_and_drain_call /\ UNCHANGED <<dialer_vars, framing_vars, protocol_vars, natpmp_vars>>
    \/ wait_and_drain_wake /\ UNCHANGED <<dialer_vars, framing_vars, protocol_vars, natpmp_vars>>
    \/ wait_and_drain_drop /\ UNCHANGED <<dialer_vars, framing_vars, protocol_vars, natpmp_vars>>
    \/ tick /\ UNCHANGED <<dialer_vars, framing_vars, protocol_vars, natpmp_vars>>

FramingStep ==
    \/ /\ w_pc = "idle"
       /\ raw_count = 0
       /\ \E m \in Messages, n \in 0..(4 + MAX_MESSAGE_SIZE) :
             write_message_call(m, n)
                /\ UNCHANGED <<dialer_vars, timers_vars, protocol_vars, natpmp_vars>>
    \/ \E n \in 1..(4 + MAX_MESSAGE_SIZE) :
          write_message_poll(n)
             /\ UNCHANGED <<dialer_vars, timers_vars, protocol_vars, natpmp_vars>>
    \/ write_message_drop /\ UNCHANGED <<dialer_vars, timers_vars, protocol_vars, natpmp_vars>>
    \/ \E b \in ByteValues : stream_write(b) /\ UNCHANGED <<dialer_vars, timers_vars, protocol_vars, natpmp_vars>>
    \/ stream_close /\ UNCHANGED <<dialer_vars, timers_vars, protocol_vars, natpmp_vars>>
    \/ read_lp_call /\ UNCHANGED <<dialer_vars, timers_vars, protocol_vars, natpmp_vars>>
    \/ \E n \in 1..4 : read_lp_prefix(n) /\ UNCHANGED <<dialer_vars, timers_vars, protocol_vars, natpmp_vars>>
    \/ read_lp_prefix_eof /\ UNCHANGED <<dialer_vars, timers_vars, protocol_vars, natpmp_vars>>
    \/ \E n \in 1..MAX_MESSAGE_SIZE :
          read_lp_payload(n) /\ UNCHANGED <<dialer_vars, timers_vars, protocol_vars, natpmp_vars>>
    \/ read_lp_payload_eof /\ UNCHANGED <<dialer_vars, timers_vars, protocol_vars, natpmp_vars>>

InitFraming == dialer_new /\ timers_new /\ framing_init /\ protocol_new /\ natpmp_new

SpecDialer == Init /\ [][DialerStep]_vars
SpecTimers == Init /\ [][TimersStep]_vars
SpecFraming == InitFraming /\ [][FramingStep]_vars

\* A caller that calls reset right after every wait_and_drain that returned,
\* before anything else happens to the Timers.
ResetAfterDrainStep ==
    \/ \E instant \in Instants, item \in 1..MaxInserts :
          /\ top.name # "wait_and_drain"
          /\ insert(instant, item) /\ UNCHANGED <<dialer_vars, framing_vars, protocol_vars, natpmp_vars>>
    \/ reset /\ UNCHANGED <<dialer_vars, framing_vars, protocol_vars, natpmp_vars>>
    \/ /\ top.name # "wait_and_drain"
       /\ wait_and_drain_call /\ UNCHANGED <<dialer_vars, framing_vars, protocol_vars, natpmp_vars>>
    \/ wait_and_drain_wake /\ UNCHANGED <<dialer_vars, framing_vars, protocol_vars, natpmp_vars>>
    \/ wait_and_drain_drop /\ UNCHANGED <<dialer_vars, framing_vars, protocol_vars, natpmp_vars>>
    \/ /\ top.name # "wait_and_drain"
       /\ tick /\ UNCHANGED <<dialer_vars, framing_vars, protocol_vars, natpmp_vars>>

\* The caller keeps waiting on the Timers (and, as in a select! loop, may drop
\* a call that has not completed and call again), the clock advances, and a
\* sleep that is ready again and again is eventually the branch that is taken.
FairTimersReset ==
    /\ Init /\ [][ResetAfterDrainStep]_vars
    /\ WF_vars(reset /\ top.name = "wait_and_drain"
                     /\ UNCHANGED <<dialer_vars, framing_vars, protocol_vars, natpmp_vars>>)
    /\ WF_vars(wait_and_drain_call /\ top.name # "wait_and_drain"
                     /\ UNCHANGED <<dialer_vars, framing_vars, protocol_vars, natpmp_vars>>)
    /\ SF_vars(wait_and_drain_wake /\ UNCHANGED <<dialer_vars, framing_vars, protocol_vars, natpmp_vars>>)
    /\ WF_vars(tick /\ top.name # "wait_and_drain"
                     /\ UNCHANGED <<dialer_vars, framing_vars, protocol_vars, natpmp_vars>>)

\* The caller keeps calling Dialer::next (and, as in a select! loop, drops a call
\* that does not complete); FuturesUnordered polls every attempt that was woken,
\* so an attempt that is ready again and again is eventually the one yielded.
FairDialer ==
    /\ SpecDialer
    /\ WF_vars(next_call /\ UNCHANGED <<timers_vars, framing_vars, protocol_vars, natpmp_vars>>)
    /\ WF_vars(next_drop /\ UNCHANGED <<timers_vars, framing_vars, protocol_vars, natpmp_vars>>)
    /\ \A i \in AttemptIds : SF_vars(next_poll(i) /\ UNCHANGED <<timers_vars, framing_vars, protocol_vars, natpmp_vars>>)

ProtocolStep ==
    \/ \E data \in Payloads, n \in 0..(1 + PROTOCOL_MAX_MESSAGE_SIZE) :
          write_lp(data, n)
             /\ UNCHANGED <<dialer_vars, timers_vars, framing_vars, natpmp_vars>>
    \/ \E n \in 1..(1 + PROTOCOL_MAX_MESSAGE_SIZE) :
          write_lp_poll(n)
             /\ UNCHANGED <<dialer_vars, timers_vars, framing_vars, natpmp_vars>>
    \/ write_lp_drop /\ UNCHANGED <<dialer_vars, timers_vars, framing_vars, natpmp_vars>>
    \/ \E b \in ProtocolBytes :
          protocol_stream_write(b)
             /\ UNCHANGED <<dialer_vars, timers_vars, framing_vars, natpmp_vars>>
    \/ protocol_stream_close
          /\ UNCHANGED <<dialer_vars, timers_vars, framing_vars, natpmp_vars>>
    \/ \E f \in {"read_lp", "read_lp_data"} :
          protocol_read_call(f)
             /\ UNCHANGED <<dialer_vars, timers_vars, framing_vars, natpmp_vars>>
    \/ \E n \in 1..MaxProtocolBytes :
          protocol_read_buf(n)
             /\ UNCHANGED <<dialer_vars, timers_vars, framing_vars, natpmp_vars>>
    \/ protocol_read_buf_eof
          /\ UNCHANGED <<dialer_vars, timers_vars, framing_vars, natpmp_vars>>

SpecProtocol == Init /\ [][ProtocolStep]_vars

\* The task that awaits read_lp or read_lp_data is polled whenever its read is
\* ready: a read of a stream that holds bytes, or that has ended, completes.
FairProtocol ==
    /\ Init /\ [][ProtocolStep]_vars
    /\ WF_vars(\E n \in 1..MaxProtocolBytes :
                  protocol_read_buf(n)
                     /\ UNCHANGED <<dialer_vars, timers_vars, framing_vars, natpmp_vars>>)
    /\ WF_vars(protocol_read_buf_eof
                  /\ UNCHANGED <<dialer_vars, timers_vars, framing_vars, natpmp_vars>>)

NatPmpStep ==
    response_decode /\ UNCHANGED <<dialer_vars, timers_vars, framing_vars, protocol_vars>>

InitNatPmp == dialer_new /\ timers_new /\ framing_new /\ protocol_new /\ natpmp_init

SpecNatPmp == InitNatPmp /\ [][NatPmpStep]_vars

\* ------------------------------------------------------------ Dialer claims

\* the attempt i is in flight
in_flight(i) == i \in DOMAIN pending

\* the attempt i is in flight and its token has not been cancelled
live(i) == in_flight(i) /\ i \notin cancelled

\* C1: when next returns the cancelled result of an aborted attempt for p while
\* p has been dialed again, the pending entry of the new attempt is not
\* removed: is_pending(p) stays true.
C1_StaleCompletionKeepsNewEntry ==
    [][(/\ op'.name = "next"
        /\ op'.res = "Cancelled"
        /\ is_pending(op'.peer)
        /\ pending_peers[op'.peer] # op'.id)
       => op'.peer \in DOMAIN pending_peers']_vars

\* C2: a queue_dial(p) made while an attempt of an earlier queue_dial(p) is
\* still unresolved changes nothing: no second attempt is started and the
\* pending entries are as before.
C2_SecondQueueDialChangesNothing ==
    [][(/\ op'.name = "queue_dial"
        /\ \E i \in DOMAIN pending : pending[i].peer = op'.peer /\ live(i))
       => (pending' = pending /\ pending_peers' = pending_peers)]_vars

\* C3 as stated: an aborted attempt that is still in flight is eventually
\* returned by next, whether or not another peer is pending.
C3_AbortedEventuallyReturned ==
    \A i \in AttemptIds : (in_flight(i) /\ i \in cancelled) ~> ~in_flight(i)

\* C3 as amended: an aborted attempt that is still in flight is eventually
\* returned by next unless the pending set becomes empty (a next called on an
\* empty pending set never returns and drains nothing).
C3_AbortedReturnedWhilePeersPending ==
    \A i \in AttemptIds :
        (in_flight(i) /\ i \in cancelled) ~> (~in_flight(i) \/ DOMAIN pending_peers = {})

\* C3 witness: next has returned the cancelled result of an aborted attempt
\* while another peer was pending.
C3_Witness ==
    /\ op.name = "next"
    /\ op.res = "Cancelled"
    /\ op.conn = "connecting"
    /\ DOMAIN pending_peers # {}

\* C4: an attempt that is not aborted and whose connect has settled is
\* eventually returned by next.
C4_SettledEventuallyReturned ==
    \A i \in AttemptIds :
        (live(i) /\ pending[i].conn # "connecting") ~> (~in_flight(i) \/ i \in cancelled)

\* C5: a call to next made while the pending set is empty never returns.  The
\* Dialer is mutably borrowed for the whole call, so the pending set at the
\* return is the one of the call: every step in which next returns (a result
\* or a panic) starts with a non-empty pending set.
C5_NextOnEmptyNeverReturns ==
    [][op'.name = "next" => DOMAIN pending_peers # {}]_vars

\* C5 witness: a call made on an empty pending set stays suspended although an
\* attempt in flight is ready.
C5_Witness ==
    /\ next_pc = "parked"
    /\ DOMAIN pending_peers = {}
    /\ \E i \in DOMAIN pending : poll_attempt(i) # "Pending"

\* C6: abort_dial(p) on a peer with no pending entry changes nothing, and after
\* abort_dial(p), pending or not, p has no entry and the entries of the other
\* peers are as before.
C6_AbortDialFrame ==
    [][op'.name = "abort_dial" =>
        /\ ~is_pending(op'.peer) =>
              (pending' = pending /\ pending_peers' = pending_peers
               /\ cancelled' = cancelled)
        /\ op'.peer \notin DOMAIN pending_peers'
        /\ pending' = pending
        /\ \A q \in Peers \ {op'.peer} :
              /\ (q \in DOMAIN pending_peers') = (q \in DOMAIN pending_peers)
              /\ q \in DOMAIN pending_peers => pending_peers'[q] = pending_peers[q]]_vars

\* C6 witness: abort_dial on a peer with no entry, while another peer is pending
\* and attempts are in flight.
C6_Witness ==
    /\ op.name = "abort_dial"
    /\ op.res = "noop"
    /\ DOMAIN pending_peers # {}
    /\ \E i \in DOMAIN pending : pending[i].peer = op.peer

\* C7: is_pending(p) is true exactly when an attempt for p is in flight that
\* has not been aborted.
C7_PendingIffLiveAttempt ==
    \A p \in Peers : is_pending(p) <=> \E i \in DOMAIN pending : pending[i].peer = p /\ live(i)

\* C8: when next returns (p, result), p has no pending entry right after and
\* the entries of the other peers are as before.
C8_NextRemovesPeer ==
    [][(op'.name = "next" /\ op'.res # "panic") =>
        /\ op'.peer \notin DOMAIN pending_peers'
        /\ \A q \in Peers \ {op'.peer} :
              /\ (q \in DOMAIN pending_peers') = (q \in DOMAIN pending_peers)
              /\ q \in DOMAIN pending_peers => pending_peers'[q] = pending_peers[q]]_vars

\* C8 witness: next has returned the stale result of an aborted attempt for a
\* peer that had been dialed again; the peer has no entry although its new
\* attempt is in flight.
C8_Witness ==
    /\ op.name = "next"
    /\ op.aborted
    /\ ~is_pending(op.peer)
    /\ \E i \in DOMAIN pending : pending[i].peer = op.peer /\ live(i)

\* C9: an attempt whose token was cancelled is returned by next as the
\* cancellation error, also when its connect had succeeded.
C9_CancelTakesPrecedence ==
    (op.name = "next" /\ op.aborted) => op.res = "Cancelled"

\* C9 witness: an aborted attempt whose connect had succeeded was returned.
C9_Witness ==
    /\ op.name = "next"
    /\ op.aborted
    /\ op.conn = "Ok"

\* ------------------------------------------------------------ Timers claims

\* C10: a wait_and_drain called on an empty map never returns.  Timers is
\* mutably borrowed for the whole call, so the map at the return is the one of
\* the call: every step in which wait_and_drain returns starts with a
\* non-empty map.
C10_WaitOnEmptyNeverReturns ==
    [][top'.name = "wait_and_drain" => DOMAIN timers_map # {}]_vars

\* the entries (instant, item) held by a timer map
entries_of(m) == UNION {{<<t, m[t][k]>> : k \in 1..Len(m[t])} : t \in DOMAIN m}

\* the entries of a drained sequence
drained_set(d) == {d[k] : k \in 1..Len(d)}

\* C11: the cached next wake is the least instant of the map, and there is none
\* exactly when the map is empty.
C11_CacheIsMinimum ==
    IF DOMAIN timers_map = {} THEN timers_next = <<>>
    ELSE timers_next = <<min_instant(DOMAIN timers_map)>>

\* C12: with entries at t1 < t2 < t3 whose first wait_and_drain returned the t1
\* entry, a second wait_and_drain made with no insert or reset in between
\* (the cached instant is still t1) returns, once t2 and t3 have elapsed, the
\* two remaining entries together.
C12_SecondDrainReturnsBoth ==
    [][(/\ top'.name = "wait_and_drain"
        /\ Cardinality(DOMAIN timers_map) = 2
        /\ \A t \in DOMAIN timers_map :
              Len(timers_map[t]) = 1 /\ timers_next[1] < t /\ t <= now)
       => (Len(top'.drained) = 2 /\ DOMAIN timers_map' = {})]_vars

\* C13: a wait_and_drain that returns yields at least one entry.
C13_DrainNeverEmpty == top.name = "wait_and_drain" => Len(top.drained) >= 1

\* C14: a wait_and_drain that wakes for the cached instant d returns exactly
\* the entries of the map at or before d, each entry once, removes them and
\* leaves the entries after d as they were.
C14_DrainsExactlyUpToCached ==
    [][top'.name = "wait_and_drain" =>
        LET d == timers_next[1] IN
        /\ drained_set(top'.drained) = {e \in entries_of(timers_map) : e[1] <= d}
        /\ Len(top'.drained) = Cardinality(drained_set(top'.drained))
        /\ DOMAIN timers_map' = {t \in DOMAIN timers_map : t > d}
        /\ \A t \in DOMAIN timers_map' : timers_map'[t] = timers_map[t]]_vars

\* C14 witness: two entries sharing the woken instant were returned together
\* and a later entry stays in the map.
C14_Witness ==
    /\ top.name = "wait_and_drain"
    /\ Len(top.drained) = 2
    /\ top.drained[1][1] = top.drained[2][1]
    /\ DOMAIN timers_map # {}

\* C15: after a wait_and_drain has returned, no entry whose deadline had
\* passed at the wake is left in the map.
C15_NoPassedEntryLeft ==
    [][top'.name = "wait_and_drain" => \A t \in DOMAIN timers_map' : t > now]_vars

\* C16: after insert(d, x) the cached next wake is the least instant of the
\* map; when d is that least instant, the next wait_and_drain wakes as soon as
\* d has elapsed and returns x.
C16_InsertRecomputesCache ==
    top.name = "insert" =>
        /\ timers_next = <<min_instant(DOMAIN timers_map)>>
        /\ top.instant = min_instant(DOMAIN timers_map) =>
              /\ sleep_ready(timers_next[1]) <=> now >= top.instant
              /\ <<top.instant, top.item>> \in
                    drained_set(drain_until_items(timers_map, timers_next[1]))

\* C16 witness: an insert at an instant earlier than every instant present.
C16_Witness ==
    /\ top.name = "insert"
    /\ Cardinality(DOMAIN timers_map) >= 2
    /\ top.instant = min_instant(DOMAIN timers_map)
    /\ Len(timers_map[top.instant]) = 1

\* C17: an entry stays in the map until a wait_and_drain returns it, a
\* returned entry was in the map and is removed from it (so it is returned by
\* one call only), and it is not returned before its deadline.
C17_EntryLifecycle ==
    [][/\ \A e \in entries_of(timers_map) :
            \/ e \in entries_of(timers_map')
            \/ top'.name = "wait_and_drain" /\ e \in drained_set(top'.drained)
       /\ top'.name = "wait_and_drain" =>
            \A e \in drained_set(top'.drained) :
                /\ e \in entries_of(timers_map)
                /\ e \notin entries_of(timers_map')
                /\ e[1] <= now]_vars

\* C17 witness: a wait_and_drain has returned an entry while another entry
\* stays in the map.
C17_Witness ==
    /\ top.name = "wait_and_drain"
    /\ Len(top.drained) = 1
    /\ Cardinality(entries_of(timers_map)) = 2

\* ----------------------------------------------------------- framing claims

\* C18: on a stream written by write_message only (every frame begun was
\* written to its end) and read into a buffer that was empty, the k-th
\* read_message returns Some of the k-th message written.
C18_RoundTrip ==
    [][(/\ rtop'.name = "read_lp"
        /\ raw_count = 0
        /\ ~torn
        /\ rtop'.buf0 = <<>>
        /\ rtop'.taken # <<>>)
       => (/\ reads' <= Len(sent)
           /\ read_message(rtop') = [kind |-> "Some", msg |-> sent[reads']])]_vars

\* C18 witness: a message with a field has been written and read back.
C18_Witness ==
    /\ rtop.name = "read_lp"
    /\ raw_count = 0
    /\ rtop.buf0 = <<>>
    /\ read_message(rtop).kind = "Some"
    /\ read_message(rtop).msg.fields = <<1>>
    /\ reads = 2

\* C19: write_message returns an error for a message whose serialized size is
\* at or above the maximum and has then written no byte; no such message
\* gets as far as its length prefix.
C19_OversizedWriteFails ==
    [][/\ w_pc' # "idle" => serialized_size(w_msg') < MAX_MESSAGE_SIZE
       /\ (wtop'.name = "write_message"
            /\ serialized_size(wtop'.msg) >= MAX_MESSAGE_SIZE)
          => (wtop'.res = "Err" /\ wtop'.wrote = <<>> /\ wire' = wire)]_vars

\* C19 witness: after one message was written, a message of exactly the
\* maximum size has been refused.
C19_Witness ==
    /\ wtop.name = "write_message"
    /\ wtop.res = "Err"
    /\ serialized_size(wtop.msg) = MAX_MESSAGE_SIZE
    /\ Len(sent) = 1

\* C20: read_lp does not go on to the payload of a frame whose declared length
\* is at or above the maximum, and returns no payload of such a length (the
\* lengths it accepts are those write_message emits, the ones below the
\* maximum).
C20_ReadRejectsAtOrAboveMax ==
    /\ r_pc = "payload" => declared_size < MAX_MESSAGE_SIZE
    /\ (rtop.name = "read_lp" /\ rtop.kind = "Some")
          => Len(rtop.data) < MAX_MESSAGE_SIZE

\* C21: read_lp returns None only when the stream ended with no byte of the
\* length prefix read; an end after 1, 2 or 3 prefix bytes is an error.
C21_NoneOnlyAtFrameBoundary ==
    (rtop.name = "read_lp" /\ rtop.kind = "None") => rtop.taken = <<>>

\* C22: when the stream ends after a length prefix declaring n > 0 bytes and
\* before n payload bytes, read_lp returns an error (no message, no None, no
\* panic).
C22_ShortPayloadIsError ==
    (/\ rtop.name = "read_lp"
     /\ Len(rtop.taken) >= 4
     /\ Len(rtop.taken) - 4 < be_u32(SubSeq(rtop.taken, 1, 4)))
    => rtop.kind = "Err"

\* C23: a read_lp that returns without having taken a byte from the stream
\* (the stream ended at a frame boundary) returns None and leaves the buffer
\* as it was on entry.
C23_CleanEndIsNone ==
    [][(rtop'.name = "read_lp" /\ rtop'.taken = <<>>)
       => (/\ closed /\ wire = <<>>
           /\ rtop'.kind = "None"
           /\ rbuf' = rbuf
           /\ rbuf' = rtop'.buf0)]_vars

\* C23 witness: after a frame was read, the stream ended at the frame
\* boundary and read_lp returned None.
C23_Witness ==
    /\ rtop.name = "read_lp"
    /\ rtop.kind = "None"
    /\ rtop.taken = <<>>
    /\ reads = 2
    /\ Len(sent) = 1

\* C24: a read_lp that returns on a read (not on the end of the stream) has
\* taken one whole frame, and its result and the buffer it leaves are those
\* of the frame delivered in one chunk, however the reads split the frame.
C24_ChunkingDoesNotMatter ==
    [][(rtop'.name = "read_lp" /\ wire # <<>>)
       => (/\ Len(rtop'.taken) >= 4
           /\ Len(rtop'.taken) =
                 IF be_u32(SubSeq(rtop'.taken, 1, 4)) > MAX_MESSAGE_SIZE THEN 4
                 ELSE 4 + be_u32(SubSeq(rtop'.taken, 1, 4))
           /\ read_lp_one_chunk(rtop'.buf0, rtop'.taken) =
                 [kind |-> rtop'.kind, data |-> rtop'.data, buf |-> rbuf'])]_vars

\* C24 witness: reads have delivered the prefix and one payload byte of
\* three, and the reader waits for the next chunk.
C24_Witness ==
    /\ r_pc = "payload"
    /\ Len(r_taken) = 5
    /\ declared_size = 3
    /\ wire = <<>>
    /\ raw_count = 5
    /\ ~closed

\* C25: on a stream written by write_message only (every frame begun was
\* written to its end) and read with one buffer
\* (empty before the first read), each read returns the next message written
\* and has taken exactly that message's frame from the stream, leaves nothing
\* in the buffer, and None is returned only once every message was returned.
C25_Pipelining ==
    [][(rtop'.name = "read_lp" /\ raw_count = 0 /\ ~torn /\ rtop'.buf0 = <<>>)
       => (/\ rtop'.kind \in {"Some", "None"}
           /\ rtop'.kind = "None" => (reads >= Len(sent) /\ rtop'.taken = <<>>)
           /\ rtop'.kind = "Some" =>
                 /\ reads' <= Len(sent)
                 /\ rtop'.taken = be_bytes(serialized_size(sent[reads']))
                                     \o to_slice(sent[reads'])
                 /\ read_message(rtop').msg = sent[reads']
                 /\ rbuf' = <<>>)]_vars

\* C25 witness: two different messages were written back-to-back; the first
\* has been read while the whole frame of the second waits on the stream.
C25_Witness ==
    /\ rtop.name = "read_lp"
    /\ rtop.kind = "Some"
    /\ reads = 1
    /\ Len(sent) = 2
    /\ sent[1] # sent[2]
    /\ Len(wire) = 4 + serialized_size(sent[2])

\* C26: the bytes read_lp returns are the payload bytes that followed the
\* prefix on the stream, of the declared length, and what the buffer held on
\* entry is left in it.
C26_ReturnsThePayload ==
    [][(rtop'.name = "read_lp" /\ rtop'.kind = "Some")
       => (/\ rtop'.data = SubSeq(rtop'.taken, 5, Len(rtop'.taken))
           /\ Len(rtop'.data) = be_u32(SubSeq(rtop'.taken, 1, 4))
           /\ rbuf' = rtop'.buf0)]_vars

\* C27: write_message of a message of serialized size n puts on the stream
\* the four bytes of n, most significant first, and then the n payload bytes,
\* whatever the scratch buffer held.
C27_WriteEmitsPrefixThenPayload ==
    [][/\ (wtop'.name = "write_message" /\ wtop'.res = "Ok")
          => (/\ Len(wtop'.wrote) = 4 + serialized_size(wtop'.msg)
              /\ be_u32(SubSeq(wtop'.wrote, 1, 4)) = serialized_size(wtop'.msg)
              /\ SubSeq(wtop'.wrote, 5, Len(wtop'.wrote)) = to_slice(wtop'.msg)
              /\ Len(to_slice(wtop'.msg)) = serialized_size(wtop'.msg)
              /\ SubSeq(wtop'.wrote, 1, Len(w_wrote)) = w_wrote
              /\ wire' = wire \o SubSeq(wtop'.wrote, Len(w_wrote) + 1,
                                           Len(wtop'.wrote)))
       /\ (w_pc' # "idle" /\ (w_pc = "idle" \/ w_wrote' # w_wrote))
          => (/\ SubSeq(w_wrote', 1, Len(w_wrote)) = w_wrote
              /\ wire' = wire \o SubSeq(w_wrote', Len(w_wrote) + 1, Len(w_wrote'))
              /\ Len(w_wrote') < 4 + serialized_size(w_msg'))
       /\ w_pc = "idle" => w_wrote = <<>>]_vars

\* C27 witness: a message was written with a scratch buffer that held the
\* longer payload of the message before it.
C27_Witness ==
    /\ wtop.name = "write_message"
    /\ wtop.res = "Ok"
    /\ Len(sent) = 2
    /\ serialized_size(sent[1]) > serialized_size(sent[2])

\* ------------------------------------------------------ more Dialer claims

\* C28: no two attempts in flight that are not cancelled target the same peer.
C28_OneLiveAttemptPerPeer ==
    \A i, j \in DOMAIN pending :
        (live(i) /\ live(j) /\ pending[i].peer = pending[j].peer) => i = j

\* C29: every entry of the pending set holds the token of an attempt in
\* flight for that peer, so the attempt stream is non-empty whenever the
\* pending set is, and the unwrap in next never panics.
C29_EntriesHaveAttempts ==
    /\ \A peer \in DOMAIN pending_peers :
          /\ pending_peers[peer] \in DOMAIN pending
          /\ pending[pending_peers[peer]].peer = peer
    /\ next_pc = "polling" => DOMAIN pending # {}
    /\ next_pc # "panicked"
    /\ op.res # "panic"

\* C29 witness: next is polling while one peer is pending and an aborted
\* attempt for another peer is still in flight.
C29_Witness ==
    /\ next_pc = "polling"
    /\ Cardinality(DOMAIN pending_peers) = 1
    /\ Cardinality(DOMAIN pending) = 2
    /\ cancelled # {}

\* C30: next returns an attempt that has completed (settled or cancelled),
\* whatever the order of the requests, and leaves every other attempt, and
\* the pending entry of every other peer, as they were.
C30_CompletionOrder ==
    [][op'.name = "next" =>
        /\ op'.id \in DOMAIN pending
        /\ (pending[op'.id].conn # "connecting" \/ op'.id \in cancelled)
        /\ \A j \in (DOMAIN pending) \ {op'.id} :
              /\ j \in DOMAIN pending'
              /\ pending'[j] = pending[j]
              /\ (j \in cancelled) = (j \in cancelled')
        /\ \A peer \in (DOMAIN pending_peers) \ {op'.peer} :
              /\ peer \in DOMAIN pending_peers'
              /\ pending_peers'[peer] = pending_peers[peer]]_vars

\* C30 witness: next has returned the attempt queued second (peer 2) while
\* the attempt queued first (peer 1) is still connecting and pending.
C30_Witness ==
    /\ op.name = "next"
    /\ op.peer = 2
    /\ op.id = 2
    /\ op.res = "Ok"
    /\ 1 \in DOMAIN pending
    /\ pending[1] = [peer |-> 1, conn |-> "connecting"]
    /\ 1 \in DOMAIN pending_peers
    /\ pending_peers[1] = 1
    /\ cancelled = {}

\* C31: an attempt returned by next leaves the attempt stream (it is returned
\* once) and is tagged with the peer it was started for; an attempt keeps its
\* peer; only a queue_dial on a peer that is not pending adds an attempt, and
\* it adds one, for that peer; abort_dial and next add none.
C31_AttemptsReturnedOnceNeverRetried ==
    [][/\ (op'.name = "next" /\ op'.res # "panic")
          => (/\ op'.id \in DOMAIN pending
              /\ op'.id \notin DOMAIN pending'
              /\ op'.peer = pending[op'.id].peer)
       /\ \A j \in DOMAIN pending \cap DOMAIN pending' :
             pending'[j].peer = pending[j].peer
       /\ IF op'.name = "queue_dial" /\ ~is_pending(op'.peer)
          THEN /\ DOMAIN pending \subseteq DOMAIN pending'
               /\ Cardinality(DOMAIN pending') = Cardinality(DOMAIN pending) + 1
               /\ \A j \in DOMAIN pending' \ DOMAIN pending :
                     pending'[j] = [peer |-> op'.peer, conn |-> "connecting"]
          ELSE DOMAIN pending' \subseteq DOMAIN pending]_vars

\* C31 witness: next has returned a failed dial and no attempt is in flight.
C31_Witness ==
    /\ op.name = "next"
    /\ op.res = "Err"
    /\ DOMAIN pending = {}
    /\ DOMAIN pending_peers = {}

\* ------------------------------------------------------ more Timers claims

\* C32: the cached wake changes only in insert and reset, and reset sets it to
\* the least instant of the map or to none when the map is empty; with a
\* caller that calls reset after every wait_and_drain, no wait_and_drain
\* returns an empty sequence, none returns while the map is empty, and every
\* entry in the map eventually leaves it (returned by a wait_and_drain).
C32_ResetDisciplineDrainsEverything ==
    /\ [][/\ timers_next' # timers_next => top'.name \in {"insert", "reset"}
          /\ top'.name = "reset" =>
                timers_next' = IF DOMAIN timers_map = {} THEN <<>>
                               ELSE <<min_instant(DOMAIN timers_map)>>
          /\ DOMAIN timers_map = {} => top'.name # "wait_and_drain"]_vars
    /\ [](top.name = "wait_and_drain" => Len(top.drained) >= 1)
    /\ \A e \in Instants \X (1..MaxInserts) :
          (e \in entries_of(timers_map)) ~> (e \notin entries_of(timers_map))

\* C32 witness: after earlier calls returned the earlier entries, a
\* wait_and_drain has returned the last of three entries and the map is empty.
C32_Witness ==
    /\ top.name = "wait_and_drain"
    /\ Len(top.drained) = 1
    /\ top.drained[1][2] = 3
    /\ inserted = 3
    /\ DOMAIN timers_map = {}
    /\ top.instant = 2

\* ------------------------------------------------------ more framing claims

\* C33: read_message returns None exactly when its read_lp does and an error
\* when read_lp fails; when read_lp has taken a whole frame whose payload
\* does not decode, read_message returns a decode error (not None, not a
\* message) of another kind than a framing error, and no byte of the frame
\* is left in the buffer, which holds what it held on entry.
C33_ReadMessageOutcomes ==
    [][rtop'.name = "read_lp" =>
        LET whole == /\ Len(rtop'.taken) >= 4
                     /\ Len(rtop'.taken) = 4 + be_u32(SubSeq(rtop'.taken, 1, 4))
            payload == SubSeq(rtop'.taken, 5, Len(rtop'.taken))
        IN  /\ (read_message(rtop').kind = "None") <=> (rtop'.kind = "None")
            /\ rtop'.kind = "Err" =>
                  (read_message(rtop').kind = "Err"
                   /\ read_message_error(rtop') = "framing")
            /\ (whole /\ ~from_bytes(payload).ok) =>
                  /\ read_message(rtop').kind = "Err"
                  /\ read_message_error(rtop') = "decode"
                  /\ rbuf' = rtop'.buf0]_vars

\* C34: a read_lp that returns bytes has taken from the stream the prefix and
\* exactly the declared number of payload bytes, and when the buffer was
\* empty on entry it is empty after the call.
C34_ConsumesExactlyOneFrame ==
    [][(rtop'.name = "read_lp" /\ rtop'.kind = "Some")
       => (/\ Len(rtop'.taken) = 4 + be_u32(SubSeq(rtop'.taken, 1, 4))
           /\ rtop'.buf0 = <<>> => rbuf' = <<>>)]_vars

\* C35: a prefix declaring length 0 makes read_lp return Some of no bytes,
\* having taken the four prefix bytes and nothing else, the buffer left as it
\* was; read_lp never goes on to read a payload for it.
C35_ZeroLengthFrame ==
    [][/\ (rtop'.name = "read_lp" /\ Len(rtop'.taken) >= 4
           /\ be_u32(SubSeq(rtop'.taken, 1, 4)) = 0)
          => (/\ rtop'.kind = "Some"
              /\ rtop'.data = <<>>
              /\ Len(rtop'.taken) = 4
              /\ rbuf' = rtop'.buf0)
       /\ r_pc' = "payload" => be_u32(SubSeq(r_taken', 1, 4)) > 0]_vars

\* C35 witness: a frame of length 0 has been read into a buffer that held a
\* byte, with bytes of a following frame waiting on the stream.
C35_Witness ==
    /\ rtop.name = "read_lp"
    /\ rtop.kind = "Some"
    /\ rtop.taken = <<0, 0, 0, 0>>
    /\ rtop.buf0 = <<1>>
    /\ Len(wire) = 3

\* --------------------------------------------------- varint framing claims

\* C36: when the stream ends before the declared number of payload bytes has
\* arrived, read_lp and read_lp_data return: a call that waits for payload on
\* an ended and emptied stream leads to the call having returned.
C36_EndedStreamEndsTheCall ==
    (p_pc = "payload" /\ p_closed /\ p_wire = <<>>) ~> (p_pc = "idle")

\* C37: read_prefix is never left waiting for more bytes behind a length prefix
\* that is malformed: while it waits, the buffered bytes are the beginning of
\* a varint that further bytes can still complete.
C37_MalformedPrefixRejected ==
    p_pc = "prefix" => varint_decode(p_buffer).err = "Insufficient"

\* C38: read_lp and read_lp_data never return None; on an empty buffer and an
\* ended, emptied stream they return the error of read_prefix; write_lp
\* accepts a payload exactly when its length is below the maximum message
\* size, and read_prefix accepts the size a prefix declares exactly when it is
\* below that same maximum.
C38_NeverNoneAndOneBound ==
    [][ /\ p_top'.name # "none" => p_top'.kind \in {"Some", "Err"}
        /\ (p_pc = "prefix" /\ p_buffer = <<>> /\ p_closed /\ p_wire = <<>>)
              => (p_top'.kind = "Err" /\ p_top'.err = "no more data")
        /\ p_wtop'.name = "write_lp"
              => (p_wtop'.res = "Ok"
                     <=> Len(p_wtop'.data) < PROTOCOL_MAX_MESSAGE_SIZE)
        /\ p_wpc' # "idle" => Len(p_wdata') < PROTOCOL_MAX_MESSAGE_SIZE
        /\ LET called == p_pc = "idle" /\ (p_pc' # "idle" \/ p_top'.name # "none")
               read == p_pc = "prefix" /\ Len(p_wire') < Len(p_wire)
               b == IF called THEN p_buffer
                    ELSE p_buffer \o SubSeq(p_wire, 1, Len(p_wire) - Len(p_wire'))
               d == varint_decode(b)
               accepted == \/ p_pc' = "payload" /\ p_size' = d.value
                           \/ /\ p_top'.name # "none"
                              /\ p_top'.err \in {"none", "decode"}
                              /\ p_top'.size = d.value
               refused == p_top'.kind = "Err" /\ p_top'.err = "too large"
           IN  ((called \/ read) /\ d.ok)
                  => IF d.value < PROTOCOL_MAX_MESSAGE_SIZE THEN accepted ELSE refused
      ]_vars

\* a stream on which bytes were written ended where a frame ended: the buffer
\* is empty and the call returned the error of read_prefix
C38_Witness ==
    /\ p_top.kind = "Err"
    /\ p_top.err = "no more data"
    /\ p_buffer = <<>>
    /\ p_written > 0

\* ------------------------------------------------------------ NAT-PMP claims

\* C39: Response::decode returns Ok or Err for every buffer; a buffer shorter
\* than MIN_RESP_SIZE or longer than MAX_RESP_SIZE gives Malformed, and so
\* does a success response with a MapUdp or MapTcp opcode in a buffer shorter
\* than 16 bytes.
C39_DecodeNeverAborts ==
    n_res.kind # "none" =>
        /\ n_res.kind \in {"Ok", "Err"}
        /\ (Len(n_buf) < MIN_RESP_SIZE \/ Len(n_buf) > MAX_RESP_SIZE)
              => (n_res.kind = "Err" /\ n_res.err = "Malformed")
        /\ ( /\ Len(n_buf) >= MIN_RESP_SIZE
             /\ Len(n_buf) < 16
             /\ n_buf[1] = 0
             /\ n_buf[2] \in {RESPONSE_INDICATOR + 1, RESPONSE_INDICATOR + 2}
             /\ u16_from_be_bytes(slice(n_buf, 2, 4)) = 0 )
              => (n_res.kind = "Err" /\ n_res.err = "Malformed")

====
